---- MODULE Spec2Model ----
(***************************************************************************)
(* A model of the react-parcel project scaffolder: the command line entry  *)
(* (index.ts: run, validateNpmName) and createApp with its helpers         *)
(* isWriteable and install (create-app.ts).                                *)
(*                                                                         *)
(* Text the program inspects character by character (the project argument) *)
(* or compares by name (file names, path segments) is a sequence of        *)
(* one-character strings.  A path is the sequence of its segments below    *)
(* "/"; <<>> is "/" itself.  Text that is only assembled and reported (the *)
(* installer's arguments and command line) is a string.                    *)
(***************************************************************************)
EXTENDS Integers, Sequences, FiniteSets, TLC

\* ------------------------------------------------------------------ bounds

\* Largest number of files in a template tree.
MaxTemplateFiles == 2

\* Longest package list handed to install when it is exercised on its own.
MaxPkgs == 2

\* How many times in succession the template copy is run when it is exercised
\* on its own.
MaxCalls == 2

\* The longest name validateNpmName is exercised on.
MaxNameLen == 3

\* ---------------------------------------------------------------- text

\* String.prototype.trim: the leading whitespace of a character sequence removed.
RECURSIVE TrimStart(_)
TrimStart(cs) ==
  IF cs # <<>> /\ Head(cs) = " " THEN TrimStart(Tail(cs)) ELSE cs

\* Trim as it would be were only the leading whitespace removed.
Trim_StartOnly(cs) == TrimStart(cs)

\* ... and the trailing whitespace.
RECURSIVE TrimEnd(_)
TrimEnd(cs) ==
  IF cs # <<>> /\ cs[Len(cs)] = " " THEN TrimEnd(SubSeq(cs, 1, Len(cs) - 1)) ELSE cs

Trim(cs) == TrimEnd(TrimStart(cs))

\* The string a character sequence spells.
RECURSIVE Str(_)
Str(cs) == IF cs = <<>> THEN "" ELSE Head(cs) \o Str(Tail(cs))

\* Array.prototype.join(' ').
RECURSIVE JoinSpace(_)
JoinSpace(ss) ==
  IF ss = <<>> THEN ""
  ELSE IF Len(ss) = 1 THEN ss[1]
  ELSE ss[1] \o " " \o JoinSpace(Tail(ss))

\* ---------------------------------------------------------------- paths

\* The "/"-separated pieces of a character sequence, empty pieces included.
RECURSIVE SplitSlash(_, _)
SplitSlash(cs, cur) ==
  IF cs = <<>> THEN <<cur>>
  ELSE IF Head(cs) = "/" THEN <<cur>> \o SplitSlash(Tail(cs), <<>>)
  ELSE SplitSlash(Tail(cs), Append(cur, Head(cs)))

\* Path normalisation: "" and "." pieces dropped, ".." removes the segment before it.
RECURSIVE Normalize(_, _)
Normalize(pieces, acc) ==
  IF pieces = <<>> THEN acc
  ELSE LET p == Head(pieces) IN
       IF p = <<>> \/ p = <<".">> THEN Normalize(Tail(pieces), acc)
       ELSE IF p = <<".", ".">>
            THEN Normalize(Tail(pieces),
                           IF acc = <<>> THEN acc ELSE SubSeq(acc, 1, Len(acc) - 1))
            ELSE Normalize(Tail(pieces), Append(acc, p))

\* path.resolve(cs) in working directory dir.
Resolve(dir, cs) ==
  IF cs # <<>> /\ Head(cs) = "/"
  THEN Normalize(SplitSlash(cs, <<>>), <<>>)
  ELSE Normalize(SplitSlash(cs, <<>>), dir)

\* path.basename and path.dirname of an absolute path.
Basename(p) == IF p = <<>> THEN <<>> ELSE p[Len(p)]

Dirname(p) == IF p = <<>> THEN <<>> ELSE SubSeq(p, 1, Len(p) - 1)

\* path.join(dir, name).
Join(dir, name) == Append(dir, name)

\* An absolute path written out: "/" before every segment.
RECURSIVE PathText(_)
PathText(p) ==
  IF p = <<>> THEN <<>> ELSE <<"/">> \o Head(p) \o PathText(Tail(p))

\* ---------------------------------------------------------------- names

\* File and directory names, spelled out.
N_gitignore == <<"g", "i", "t", "i", "g", "n", "o", "r", "e">>

N_eslintrc == <<"e", "s", "l", "i", "n", "t", "r", "c">>

N_readmeTemplate == <<"R", "E", "A", "D", "M", "E", "-", "t", "e", "m", "p", "l", "a", "t", "e", ".", "m", "d">>

N_readme == <<"R", "E", "A", "D", "M", "E", ".", "m", "d">>

N_dotGitignore == <<".", "g", "i", "t", "i", "g", "n", "o", "r", "e">>

N_dotEslintrc == <<".", "e", "s", "l", "i", "n", "t", "r", "c">>

N_gitignoreTxt == <<"g", "i", "t", "i", "g", "n", "o", "r", "e", ".", "t", "x", "t">>

N_packageJson == <<"p", "a", "c", "k", "a", "g", "e", ".", "j", "s", "o", "n">>

N_indexHtml == <<"i", "n", "d", "e", "x", ".", "h", "t", "m", "l">>

N_src == <<"s", "r", "c">>

N_home == <<"h", "o", "m", "e">>
N_app == <<"a", "p", "p">>

\* ------------------------------------------------------- name validation

\* String.prototype.toLowerCase on the letters the arguments use.
LowerChar(c) == IF c = "A" THEN "a" ELSE IF c = "P" THEN "p" ELSE c

ToLowerCase(cs) == [i \in 1..Len(cs) |-> LowerChar(cs[i])]

\* encodeURIComponent(name) === name: no character needs escaping.
UrlFriendly(cs) == \A i \in 1..Len(cs) : cs[i] \notin {" ", "/"}

\* The errors of the package naming rules, in the order the rules are applied.
NameErrors(name) ==
  (IF Len(name) = 0 THEN <<"name length must be greater than zero">> ELSE <<>>)
  \o (IF name # <<>> /\ Head(name) = "."
      THEN <<"name cannot start with a period">> ELSE <<>>)
  \o (IF Trim(name) # name
      THEN <<"name cannot contain leading or trailing spaces">> ELSE <<>>)
  \o (IF ~UrlFriendly(name)
      THEN <<"name can only contain URL-friendly characters">> ELSE <<>>)

\* ... and their warnings.
NameWarnings(name) ==
  IF ToLowerCase(name) # name
  THEN <<"name can no longer contain capital letters">> ELSE <<>>

\* validate-npm-package-name: the result carries errors and warnings only
\* when there are some.
ValidateProjectName(name) ==
  LET errs == NameErrors(name)
      warns == NameWarnings(name)
      base == [validForNewPackages |-> errs = <<>> /\ warns = <<>>]
      withErrs == IF errs = <<>> THEN base ELSE base @@ [errors |-> errs]
  IN IF warns = <<>> THEN withErrs ELSE withErrs @@ [warnings |-> warns]

\* x.f || [] for an optional array field f.
OrEmpty(rec, f) == IF f \in DOMAIN rec THEN rec[f] ELSE <<>>

\* validateNpmName as it would be were warnings not counted against a name.
ValidateNpmName_ErrorsOnly(name) ==
  LET nameValidation == ValidateProjectName(name) IN
  IF "errors" \notin DOMAIN nameValidation
  THEN [valid |-> TRUE]
  ELSE [valid |-> FALSE, problems |-> nameValidation.errors]

\* validateNpmName as it would be were the warnings listed before the errors.
ValidateNpmName_WarningsFirst(name) ==
  LET nameValidation == ValidateProjectName(name) IN
  IF nameValidation.validForNewPackages
  THEN [valid |-> TRUE]
  ELSE [valid |-> FALSE,
        problems |-> OrEmpty(nameValidation, "warnings")
                       \o OrEmpty(nameValidation, "errors")]

\* index.ts validateNpmName.
ValidateNpmName(name) ==
  LET nameValidation == ValidateProjectName(name) IN
  IF nameValidation.validForNewPackages
  THEN [valid |-> TRUE]
  ELSE [valid |-> FALSE,
        problems |-> OrEmpty(nameValidation, "errors")
                       \o OrEmpty(nameValidation, "warnings")]

\* ------------------------------------------------------------ file system

\* The path p and every directory above it.
Prefixes(p) == {SubSeq(p, 1, k) : k \in 0..Len(p)}

ProperPrefixes(p) == Prefixes(p) \ {p}

\* fs.promises.access(directory, W_OK) succeeds.
AccessW(dirs, writable, directory) == directory \in dirs /\ directory \in writable

\* The deepest directory of p's ancestry that exists.
NearestDir(dirs, p) ==
  CHOOSE q \in Prefixes(p) \cap dirs :
    \A r \in Prefixes(p) \cap dirs : Len(r) <= Len(q)

\* mkdir -p p can succeed: nothing on the way is a file, and the directory
\* the first missing one goes into is writable.
CanMkdirP(dirs, writable, files, p) ==
  /\ Prefixes(p) \cap DOMAIN files = {}
  /\ p \in dirs \/ NearestDir(dirs, p) \in writable

\* A file can be written at p: p is no directory, and its directory exists
\* and, for a new file, is writable.
CanWriteFile(dirs, writable, files, p) ==
  /\ p \notin dirs
  /\ Dirname(p) \in dirs
  /\ p \in DOMAIN files \/ Dirname(p) \in writable

\* f with the value at key k set to v, k added to the domain when new.
Put(f, k, v) == [x \in DOMAIN f \cup {k} |-> IF x = k THEN v ELSE f[x]]

\* WriteFileSync as it would be were a file already at the path kept and the
\* data written next to what it held.
WriteFileSync_Merge(files, file, data) ==
  IF file \in DOMAIN files
  THEN Put(files, file, [merged |-> <<files[file], data>>])
  ELSE Put(files, file, data)

\* fs.writeFileSync(file, data): the file holds data, whatever it held before.
WriteFileSync(files, file, data) == Put(files, file, data)

\* --------------------------------------------------------------- template

\* name begins with prefix.
StartsWith(name, prefix) ==
  Len(name) >= Len(prefix) /\ SubSeq(name, 1, Len(prefix)) = prefix

\* Rename as it would be were names matched by how they begin.
Rename_ByPrefix(name) ==
  CASE StartsWith(name, N_gitignore) \/ StartsWith(name, N_eslintrc) -> <<".">> \o name
    [] StartsWith(name, N_readmeTemplate) -> N_readme
    [] OTHER -> name

\* The rename callback handed to cpy.
Rename(name) ==
  CASE name = N_gitignore \/ name = N_eslintrc -> <<".">> \o name
    [] name = N_readmeTemplate -> N_readme
    [] OTHER -> name

\* The glob '**' with cpy's default options: no path segment starts with a dot.
Matches(f) == \A i \in 1..Len(f) : f[i] = <<>> \/ Head(f[i]) # "."

\* DestPath as it would be were the parents option off: every file is written
\* directly into the destination, its directories dropped.
DestPath_Flat(dest, f) == dest \o <<Rename(Basename(f))>>

\* cpy with parents: the file's directory below cwd is kept below the
\* destination, and the rename callback is given its base name.
DestPath(dest, f) == dest \o Dirname(f) \o <<Rename(Basename(f))>>

\* Overwrite as it would be were existing files kept.
Overwrite_Off == FALSE

\* cpy's overwrite option as createApp sets it.
Overwrite == TRUE

\* The files a template tree may hold, as paths below the template directory.
TemplateFiles ==
  { <<N_gitignore>>, <<N_src, N_eslintrc>>, <<N_readmeTemplate>>, <<N_readme>>,
    <<N_gitignoreTxt>>, <<N_dotGitignore>>, <<N_packageJson>>, <<N_src, N_indexHtml>>,
    <<N_src, N_packageJson>> }

\* The template trees: each file's content is its own.
Templates ==
  { [f \in F |-> [template |-> f]] :
      F \in {G \in SUBSET TemplateFiles : Cardinality(G) <= MaxTemplateFiles} }

\* ---------------------------------------------------------------- install

\* createApp's default dependencies and devDependencies.
Dependencies == <<"react", "react-dom">>

DevDependencies == <<"@babel/preset-env", "@babel/preset-react", "parcel">>

\* A value of type string[] | null.
NullList == [isNull |-> TRUE, items |-> <<>>]

List(items) == [isNull |-> FALSE, items |-> items]

\* install's argument list for the child process.
InstallArgs(dependencies, devDependencies) ==
  IF ~dependencies.isNull /\ Len(dependencies.items) # 0
  THEN <<"install", "--save-exact">>
         \o <<IF devDependencies THEN "--save-dev" ELSE "--save">>
         \o dependencies.items
  ELSE <<>>

\* The command line install reports when the child fails.
InstallCommand(args) == "npm " \o JoinSpace(args)

\* CodeNotZero as it would be were the code compared by size: a null code
\* is then not a failure.
CodeNotZero_Positive(ev) == "code" \in DOMAIN ev /\ ev.code > 0

\* code !== 0 for a close event; a child killed by a signal closes with a
\* null code, which the event then does not carry.
CodeNotZero(ev) == ~("code" \in DOMAIN ev /\ ev.code = 0)

\* The close events a child may end with.
CloseEvents == {[code |-> 0], [code |-> 1], [code |-> 2], [signal |-> "SIGKILL"]}

\* --------------------------------------------------------------- manifest

\* createApp's packageJson object.
PackageJson(appName) ==
  [name |-> appName,
   version |-> "1.0.0",
   private |-> TRUE,
   scripts |-> [start |-> "parcel \"./public/index.html\" --open -p 3000",
                build |-> "parcel build \"./public/index.html\" --out-dir build"]]

\* JSON.stringify(packageJson, null, 2) + os.EOL.
ManifestText(obj) == [json |-> obj, indent |-> 2, eol |-> TRUE]

\* ------------------------------------------------------------------ state

VARIABLES
  argv,               \* the <project-directory> argument as given
  projectPath,        \* index.ts: let projectPath
  pc,                 \* where the run is
  cwd,                \* the process working directory
  fsDirs,             \* the directories that exist
  fsWritable,         \* those the process may write in
  fsFiles,            \* the regular files, path -> content
  fs0,                \* the file system as the run found it
  template,           \* the template tree, relative path -> content
  appPath,            \* createApp: its argument
  root,               \* createApp: const root
  originalDirectory,  \* createApp: const originalDirectory
  installs,           \* the calls of install so far, in order
  children,           \* the child processes spawned so far, in order
  reason,             \* what the failed stage threw or rejected with
  pending,            \* cpy: the matched files not yet copied
  cpyState,           \* cpy: the state of its promise
  out,                \* what was printed, in order
  exitStatus,         \* <<>> while the process runs, then <<its exit status>>
  started,            \* the stages of createApp started so far, in order
  trace,              \* the calls the program has completed, with their argument
  calls,              \* how many times the operation under study was called
  firstTree,          \* the file system after its first call completed
  input,              \* the argument of the function under study
  returned            \* what the function under study returned or threw

vars ==
  <<argv, projectPath, pc, cwd, fsDirs, fsWritable, fsFiles, fs0, template,
    appPath, root, originalDirectory, installs, children, reason, pending, cpyState, out, exitStatus, started, trace, calls,
    firstTree, input, returned>>

fsVars == <<fsDirs, fsWritable, fsFiles>>

installVars == <<installs, children>>

cpyVars == <<pending, cpyState>>

studyVars == <<calls, firstTree, input, returned>>

NoFiles == [x \in {} |-> x]

NoReason == [none |-> TRUE]

FsNow == [dirs |-> fsDirs, writable |-> fsWritable, files |-> fsFiles]

\* ------------------------------------------------------------------- Init

\* The project arguments tried.
Args ==
  { <<>>,
    <<" ", " ">>,
    N_app,
    <<" ">> \o N_app \o <<" ">>,
    <<"A", "P", "P">>,
    <<".", "a">>,
    <<"/">>,
    <<"d", "/", " ", "a">>,
    <<"d", "/">> \o N_app,
    <<"/", "d", "/">> \o N_app,
    <<"d", "/", ".", ".", "/">> \o N_app }

\* The directory the process is started in.
StartDirectory == <<N_home>>

BaseDirs == {<<>>, StartDirectory}

ParentStates == {"writable", "readonly", "missing"}

TargetStates == {"absent", "empty", "populated", "blocked", "readonly", "file"}

\* The file system in which the target's parent and the target are as ps and
\* ts say.
FsWith(target, ps, ts) ==
  LET parent == Dirname(target)
      dirs == BaseDirs
                \cup (IF ps = "missing" THEN {} ELSE Prefixes(parent))
                \cup (IF ts \in {"empty", "populated", "blocked", "readonly"}
                      THEN {target} ELSE {})
                \cup (IF ts = "blocked" THEN {Join(target, N_readme)} ELSE {})
      files == IF ts = "populated"
               THEN [x \in {Join(target, N_readme), Join(target, N_packageJson)}
                       |-> [old |-> x]]
               ELSE IF ts = "file" THEN [x \in {target} |-> [old |-> x]]
               ELSE NoFiles
  IN [dirs |-> dirs,
      writable |-> (dirs \ (IF ps = "readonly" THEN {parent} ELSE {}))
                      \ (IF ts = "readonly" THEN {target} ELSE {}),
      files |-> files]

\* ps and ts describe a file system that can exist around target.
Plausible(target, ps, ts) ==
  IF target \in BaseDirs
  THEN ps = "writable" /\ ts = "empty"
  ELSE /\ ps = "missing" => ts = "absent" /\ Dirname(target) \notin BaseDirs

InitRest ==
  /\ cwd = StartDirectory
  /\ fs0 = FsNow
  /\ appPath = <<>>
  /\ root = <<>>
  /\ originalDirectory = <<>>
  /\ installs = <<>>
  /\ children = <<>>
  /\ reason = NoReason
  /\ pending = {}
  /\ cpyState = "idle"
  /\ out = <<>>
  /\ exitStatus = <<>>
  /\ started = <<>>
  /\ trace = <<>>
  /\ calls = 0
  /\ firstTree = FsNow

\* No function is under study.
NoStudy ==
  /\ input = <<>>
  /\ returned = NoReason

\* The program loaded: commander has stored the argument in projectPath, and
\* run() is about to be called.
Init ==
  /\ argv \in Args
  /\ projectPath = argv
  /\ pc = "run"
  /\ template \in Templates
  /\ \E ps \in ParentStates, ts \in TargetStates :
       LET target == Resolve(StartDirectory, Trim(argv)) IN
       /\ Plausible(target, ps, ts)
       /\ fsDirs = FsWith(target, ps, ts).dirs
       /\ fsWritable = FsWith(target, ps, ts).writable
       /\ fsFiles = FsWith(target, ps, ts).files
  /\ InitRest
  /\ NoStudy

\* ------------------------------------------------------ index.ts: run()

\* process.exit(status), after printing lines.
Exit(lines, status) ==
  /\ out' = out \o lines
  /\ exitStatus' = <<status>>
  /\ pc' = "exited"

\* run(), to the check of an empty argument.
RunTrim ==
  /\ pc = "run"
  /\ projectPath' = Trim(projectPath)
  /\ IF projectPath' = <<>>
     THEN Exit(<<"Please specify the project directory:">>, 1)
     ELSE /\ pc' = "validate"
          /\ UNCHANGED <<out, exitStatus>>
  /\ UNCHANGED <<argv, cwd, fsVars, fs0, trace, template, appPath, root,
                 originalDirectory, installVars, reason, cpyVars, started,
                 studyVars>>

\* run(): the path is resolved, its base name validated, createApp called.
RunValidate ==
  /\ pc = "validate"
  /\ trace' = Append(trace, [op |-> "validateNpmName",
                              arg |-> Basename(Resolve(cwd, projectPath))])
  /\ LET resolvedProjectPath == Resolve(cwd, projectPath)
         projectName == Basename(resolvedProjectPath)
         v == ValidateNpmName(projectName)
     IN IF ~v.valid
        THEN /\ Exit(<<"Could not create a project because of npm naming restrictions:">>
                       \o v.problems, 1)
             /\ UNCHANGED appPath
        ELSE /\ appPath' = resolvedProjectPath
             /\ pc' = "createApp"
             /\ UNCHANGED <<out, exitStatus>>
  /\ UNCHANGED <<argv, projectPath, cwd, fsVars, fs0, template, root,
                 originalDirectory, installVars, reason, cpyVars, started,
                 studyVars>>

\* ------------------------------------------------------------- createApp

\* A stage throws or rejects: createApp's promise rejects with why, and
\* run() passes it on to the catch handler.
Throw(why) ==
  /\ reason' = why
  /\ pc' = "catch"

\* fs.promises.access(directory, W_OK): it resolves for a writable directory
\* and for a file, and otherwise rejects with the error code of the failure.
Access(dirs, writable, files, directory) ==
  IF AccessW(dirs, writable, directory) \/ directory \in DOMAIN files
  THEN [ok |-> TRUE]
  ELSE [error |-> IF directory \in dirs THEN "EACCES" ELSE "ENOENT"]

\* Catch as it would be were only a missing directory caught and every other
\* failure passed on to the caller.
Catch_OnlyMissing(r) ==
  IF r.error = "ENOENT" THEN [value |-> FALSE] ELSE [thrown |-> r.error]

\* isWriteable's catch block: whatever the failure, false is returned.
Catch(r) == [value |-> FALSE]

\* isWriteable's body: try { await access; return true } catch { return false }.
IsWriteableCall(dirs, writable, files, directory) ==
  LET r == Access(dirs, writable, files, directory)
  IN IF "error" \in DOMAIN r THEN Catch(r) ELSE [value |-> TRUE]

\* isWriteable(directory), on the file system of the run.
IsWriteable(directory) ==
  IsWriteableCall(fsDirs, fsWritable, fsFiles, directory)

\* CheckedDirectory as it would be were the target itself checked.
CheckedDirectory_Target(r) == r

\* The directory createApp asks isWriteable about.
CheckedDirectory(r) == Dirname(r)

\* createApp: root is resolved and its parent checked.
CheckWriteable ==
  /\ pc = "createApp"
  /\ root' = Resolve(cwd, PathText(appPath))
  /\ started' = Append(started, "isWriteable")
  /\ trace' = Append(trace, [op |-> "isWriteable", arg |-> CheckedDirectory(root')])
  /\ LET w == IsWriteable(CheckedDirectory(root'))
     IN IF "thrown" \in DOMAIN w
        THEN /\ Throw([error |-> w.thrown])
             /\ UNCHANGED <<out, exitStatus>>
        ELSE IF ~w.value
        THEN /\ Exit(<<"The application path is not writable, please check folder permissions and try again.">>, 1)
             /\ UNCHANGED reason
        ELSE /\ pc' = "mkdir"
             /\ UNCHANGED <<out, exitStatus, reason>>
  /\ UNCHANGED <<argv, projectPath, cwd, fsVars, fs0, template, appPath,
                 originalDirectory, installVars, cpyVars, studyVars>>

\* fs.promises.mkdir(root, { recursive: true }).
Mkdir ==
  /\ pc = "mkdir"
  /\ started' = Append(started, "mkdir")
  /\ IF CanMkdirP(fsDirs, fsWritable, fsFiles, root)
     THEN /\ fsDirs' = fsDirs \cup Prefixes(root)
          /\ fsWritable' = fsWritable \cup (Prefixes(root) \ fsDirs)
          /\ trace' = Append(trace, [op |-> "mkdir", arg |-> root])
          /\ pc' = "readdir"
          /\ UNCHANGED reason
     ELSE /\ Throw([error |-> "mkdir"])
          /\ UNCHANGED <<fsDirs, fsWritable, trace>>
  /\ UNCHANGED <<argv, projectPath, cwd, fsFiles, fs0, template, appPath, root,
                 originalDirectory, installVars, cpyVars, out, exitStatus,
                 studyVars>>

\* fs.readdirSync(root): the names directly in root.
Readdir(r) ==
  {q[Len(r) + 1] : q \in {x \in fsDirs \cup DOMAIN fsFiles :
                            Len(x) > Len(r) /\ SubSeq(x, 1, Len(r)) = r}}

\* Truthy as it would be were an empty array falsy.
Truthy_NonEmpty(array) == array # {}

\* The truth value of an array in a condition: every array is truthy.
Truthy(array) == TRUE

\* createApp: if (!fs.readdirSync(root)) process.exit(1).
CheckListing ==
  /\ pc = "readdir"
  /\ IF ~Truthy(Readdir(root))
     THEN Exit(<<>>, 1)
     ELSE /\ pc' = "chdir"
          /\ UNCHANGED <<out, exitStatus>>
  /\ UNCHANGED <<argv, projectPath, cwd, fsVars, fs0, trace, template, appPath, root,
                 originalDirectory, installVars, reason, cpyVars, started,
                 studyVars>>

\* createApp: the working directory is remembered and changed to root.
Chdir ==
  /\ pc = "chdir"
  /\ started' = Append(started, "chdir")
  /\ originalDirectory' = cwd
  /\ cwd' = root
  /\ trace' = Append(trace, [op |-> "chdir", arg |-> root])
  /\ out' = Append(out, "Creating a new React app")
  /\ pc' = "manifest"
  /\ UNCHANGED <<argv, projectPath, fsVars, fs0, template, appPath, root,
                 installVars, reason, cpyVars, exitStatus, studyVars>>

\* WriteManifest as it would be were the write left out of this stage.
WriteManifest_Skipped ==
  /\ pc = "manifest"
  /\ started' = Append(started, "manifest")
  /\ pc' = "installRuntime"
  /\ UNCHANGED <<argv, projectPath, cwd, fsVars, fs0, trace, template, appPath, root,
                 originalDirectory, installVars, reason, cpyVars, out,
                 exitStatus, studyVars>>

\* AppName as it would be were the name taken from the argument as given
\* rather than from the resolved path.
AppName_Argument(r) == projectPath

\* createApp: const appName = path.basename(root).
AppName(r) == Basename(r)

\* createApp: package.json is written.
WriteManifest ==
  /\ pc = "manifest"
  /\ started' = Append(started, "manifest")
  /\ LET appName == AppName(root)
         file == Join(root, N_packageJson)
     IN IF CanWriteFile(fsDirs, fsWritable, fsFiles, file)
        THEN /\ fsFiles' = WriteFileSync(fsFiles, file,
                                          ManifestText(PackageJson(appName)))
             /\ trace' = Append(trace, [op |-> "writeFileSync", arg |-> file])
             /\ pc' = "installRuntime"
             /\ UNCHANGED reason
        ELSE /\ Throw([error |-> "writeFileSync"])
             /\ UNCHANGED <<fsFiles, trace>>
  /\ UNCHANGED <<argv, projectPath, cwd, fsDirs, fsWritable, fs0, template,
                 appPath, root, originalDirectory, installVars, cpyVars, out,
                 exitStatus, studyVars>>

\* --------------------------------------------------------------- install

NoEvent == [none |-> TRUE]

\* SettleOnClose as it would be were the exit code not looked at.
SettleOnClose_Always(ev) == "resolved"

\* SettleOnClose as it would be were the promise left pending when the child
\* closes with a code other than 0.
SettleOnClose_ZeroOnly(ev) == IF CodeNotZero(ev) THEN "pending" ELSE "resolved"

\* How install settles its promise when the child closes with ev.
SettleOnClose(ev) == IF CodeNotZero(ev) THEN "rejected" ELSE "resolved"

\* install(dependencies, devDependencies): the arguments are assembled, the
\* child is spawned and the pending promise returned.
InstallCall(dependencies, devDependencies) ==
  /\ children' = Append(children,
                        [args |-> InstallArgs(dependencies, devDependencies),
                         alive |-> TRUE,
                         ev |-> NoEvent])
  /\ installs' = Append(installs,
                        [dependencies |-> dependencies,
                         devDependencies |-> devDependencies,
                         promise |-> "pending",
                         rejection |-> NoReason,
                         child |-> Len(children) + 1])

\* install: the child's close event reaches the listener.
ChildClose ==
  /\ \E k \in DOMAIN installs, ev \in CloseEvents :
       LET c == installs[k].child IN
       /\ children[c].alive
       /\ children' = [children EXCEPT ![c] = [@ EXCEPT !.alive = FALSE, !.ev = ev]]
       /\ installs' = [installs EXCEPT ![k] =
                         [@ EXCEPT !.promise = SettleOnClose(ev),
                                   !.rejection =
                                     IF SettleOnClose(ev) = "rejected"
                                     THEN [command |-> InstallCommand(children[c].args)]
                                     ELSE @]]
  /\ UNCHANGED <<argv, projectPath, pc, cwd, fsVars, fs0, trace, template, appPath,
                 root, originalDirectory, reason, cpyVars, out, exitStatus,
                 started, studyVars>>

\* The promise createApp is waiting for.
LastInstall == installs[Len(installs)]

\* Awaited as it would be were the await left out.
Awaited_NoAwait(state) == state \in {"pending", "resolved"}

\* await: createApp goes on once the promise has this state.
Awaited(state) == state = "resolved"

\* createApp: the runtime dependencies are installed, if there are any.
InstallRuntime ==
  /\ pc = "installRuntime"
  /\ IF Len(Dependencies) # 0
     THEN /\ InstallCall(List(Dependencies), FALSE)
          /\ started' = Append(started, "installRuntime")
          /\ out' = Append(out, "Installing dependencies:")
          /\ pc' = "awaitRuntime"
     ELSE /\ pc' = "installDev"
          /\ UNCHANGED <<installVars, started, out>>
  /\ UNCHANGED <<argv, projectPath, cwd, fsVars, fs0, trace, template, appPath, root,
                 originalDirectory, reason, cpyVars, exitStatus, studyVars>>

\* createApp: the runtime install has resolved.
RuntimeInstalled ==
  /\ pc = "awaitRuntime"
  /\ Awaited(LastInstall.promise)
  /\ pc' = "installDev"
  /\ UNCHANGED <<argv, projectPath, cwd, fsVars, fs0, trace, template, appPath, root,
                 originalDirectory, installVars, reason, cpyVars, out,
                 exitStatus, started, studyVars>>

\* createApp: the development dependencies are installed, if there are any.
InstallDev ==
  /\ pc = "installDev"
  /\ IF Len(DevDependencies) # 0
     THEN /\ InstallCall(List(DevDependencies), TRUE)
          /\ started' = Append(started, "installDev")
          /\ out' = Append(out, "Installing devDependencies:")
          /\ pc' = "awaitDev"
     ELSE /\ pc' = "cpy"
          /\ UNCHANGED <<installVars, started, out>>
  /\ UNCHANGED <<argv, projectPath, cwd, fsVars, fs0, trace, template, appPath, root,
                 originalDirectory, reason, cpyVars, exitStatus, studyVars>>

\* createApp: the development install has resolved.
DevInstalled ==
  /\ pc = "awaitDev"
  /\ Awaited(LastInstall.promise)
  /\ pc' = "cpy"
  /\ UNCHANGED <<argv, projectPath, cwd, fsVars, fs0, trace, template, appPath, root,
                 originalDirectory, installVars, reason, cpyVars, out,
                 exitStatus, started, studyVars>>

\* createApp: the install it awaits has rejected, and createApp with it.
InstallRejected ==
  /\ pc \in {"awaitRuntime", "awaitDev"}
  /\ LastInstall.promise = "rejected"
  /\ Throw(LastInstall.rejection)
  /\ UNCHANGED <<argv, projectPath, cwd, fsVars, fs0, trace, template, appPath, root,
                 originalDirectory, installVars, cpyVars, out, exitStatus,
                 started, studyVars>>

\* ------------------------------------------------------------------- cpy

\* cpy can write a file at dest, making the directories above it.
CanCopy(dirs, writable, files, dest) ==
  /\ CanMkdirP(dirs, writable, files, Dirname(dest))
  /\ dest \notin dirs
  /\ \/ dest \in DOMAIN files
     \/ Dirname(dest) \notin dirs
     \/ Dirname(dest) \in writable

\* The files after content has been copied to dest under the overwrite option.
CopyInto(files, dest, content) ==
  IF Overwrite \/ dest \notin DOMAIN files THEN Put(files, dest, content) ELSE files

\* cpy('**', root, ...): the matched files are found and their copies begun.
CpyCall ==
  /\ pending' = {f \in DOMAIN template : Matches(f)}
  /\ cpyState' = "running"

\* createApp: the template is copied to root.
Materialize ==
  /\ pc = "cpy"
  /\ started' = Append(started, "cpy")
  /\ CpyCall
  /\ pc' = "awaitCpy"
  /\ UNCHANGED <<argv, projectPath, cwd, fsVars, fs0, trace, template, appPath, root,
                 originalDirectory, installVars, reason, out, exitStatus,
                 studyVars>>

\* cpy: one of the copies under way ends, in any order; the first to fail
\* rejects cpy's promise, and the others still end while the process lives.
CpyFile ==
  /\ exitStatus = <<>>
  /\ cpyState \in {"running", "rejected"}
  /\ \E f \in pending :
       LET dest == DestPath(root, f) IN
       /\ pending' = pending \ {f}
       /\ IF CanCopy(fsDirs, fsWritable, fsFiles, dest)
          THEN /\ fsDirs' = fsDirs \cup Prefixes(Dirname(dest))
               /\ fsWritable' = fsWritable \cup (Prefixes(Dirname(dest)) \ fsDirs)
               /\ fsFiles' = CopyInto(fsFiles, dest, template[f])
               /\ trace' = Append(trace, [op |-> "copyFile", arg |-> dest])
               /\ UNCHANGED cpyState
          ELSE /\ cpyState' = "rejected"
               /\ UNCHANGED <<fsVars, trace>>
  /\ UNCHANGED <<argv, projectPath, pc, cwd, fs0, template, appPath, root,
                 originalDirectory, installVars, reason, out, exitStatus,
                 started, studyVars>>

\* cpy: every copy has ended and none failed.
CpyResolve ==
  /\ cpyState = "running"
  /\ pending = {}
  /\ cpyState' = "resolved"
  /\ UNCHANGED <<argv, projectPath, pc, cwd, fsVars, fs0, trace, template, appPath,
                 root, originalDirectory, installVars, reason, pending, out,
                 exitStatus, started, studyVars>>

\* createApp: cpy has rejected, and createApp with it.
CpyRejected ==
  /\ pc = "awaitCpy"
  /\ cpyState = "rejected"
  /\ Throw([error |-> "cpy"])
  /\ UNCHANGED <<argv, projectPath, cwd, fsVars, fs0, trace, template, appPath, root,
                 originalDirectory, installVars, cpyVars, out, exitStatus,
                 started, studyVars>>

\* Report as it would be were the working directory put back before
\* createApp returns.
Report_RestoreCwd ==
  /\ pc = "awaitCpy"
  /\ Awaited(cpyState)
  /\ started' = Append(started, "report")
  /\ out' = Append(out, "Success!")
  /\ cwd' = originalDirectory
  /\ pc' = "then"
  /\ UNCHANGED <<argv, projectPath, fsVars, fs0, trace, template, appPath, root,
                 originalDirectory, installVars, reason, cpyVars, exitStatus,
                 studyVars>>

\* createApp: the copy is done, success is reported and createApp returns.
Report ==
  /\ pc = "awaitCpy"
  /\ Awaited(cpyState)
  /\ started' = Append(started, "report")
  /\ out' = Append(out, "Success!")
  /\ pc' = "then"
  /\ UNCHANGED <<argv, projectPath, cwd, fsVars, fs0, trace, template, appPath, root,
                 originalDirectory, installVars, reason, cpyVars, exitStatus,
                 studyVars>>

\* -------------------------------------------- index.ts: run().then().catch()

\* run() has resolved: the completion is printed, and the process, with
\* nothing left to do, ends with status 0.
SetupComplete ==
  /\ pc = "then"
  /\ Exit(<<"Setup Complete">>, 0)
  /\ UNCHANGED <<argv, projectPath, cwd, fsVars, fs0, trace, template, appPath, root,
                 originalDirectory, installVars, reason, cpyVars, started,
                 studyVars>>

\* Abort as it would be were the failure printed and the process left to end
\* by itself.
Abort_NoExit ==
  /\ pc = "catch"
  /\ Exit(<<"Aborting installation.",
            IF "command" \in DOMAIN reason
            THEN reason.command \o " has failed."
            ELSE "Unexpected error. Please report it as a bug:">>, 0)
  /\ UNCHANGED <<argv, projectPath, cwd, fsVars, fs0, trace, template, appPath, root,
                 originalDirectory, installVars, reason, cpyVars, started,
                 studyVars>>

\* Abort as it would be were the target directory, with all in it, removed
\* before the process exits.
Abort_Cleanup ==
  /\ pc = "catch"
  /\ Exit(<<"Aborting installation.",
            IF "command" \in DOMAIN reason
            THEN reason.command \o " has failed."
            ELSE "Unexpected error. Please report it as a bug:">>, 1)
  /\ fsDirs' = {d \in fsDirs : ~StartsWith(d, root)}
  /\ fsWritable' = {d \in fsWritable : ~StartsWith(d, root)}
  /\ fsFiles' = [x \in {y \in DOMAIN fsFiles : ~StartsWith(y, root)} |-> fsFiles[x]]
  /\ UNCHANGED <<argv, projectPath, cwd, fs0, trace, template, appPath, root,
                 originalDirectory, installVars, reason, cpyVars, started,
                 studyVars>>

\* run() has rejected: the failure is printed and the process exits with 1.
Abort ==
  /\ pc = "catch"
  /\ Exit(<<"Aborting installation.",
            IF "command" \in DOMAIN reason
            THEN reason.command \o " has failed."
            ELSE "Unexpected error. Please report it as a bug:">>, 1)
  /\ UNCHANGED <<argv, projectPath, cwd, fsVars, fs0, trace, template, appPath, root,
                 originalDirectory, installVars, reason, cpyVars, started,
                 studyVars>>

\* ------------------------------------------------------------------ Spec

Next ==
  \/ RunTrim
  \/ RunValidate
  \/ CheckWriteable
  \/ Mkdir
  \/ CheckListing
  \/ Chdir
  \/ WriteManifest
  \/ InstallRuntime
  \/ RuntimeInstalled
  \/ InstallDev
  \/ DevInstalled
  \/ InstallRejected
  \/ ChildClose
  \/ Materialize
  \/ CpyFile
  \/ CpyResolve
  \/ CpyRejected
  \/ Report
  \/ SetupComplete
  \/ Abort

Spec == Init /\ [][Next]_vars

\* The steps the program takes by itself: all but the close of a child and
\* the progress of the copy, which come from outside it.
ProgramStep ==
  \/ RunTrim
  \/ RunValidate
  \/ CheckWriteable
  \/ Mkdir
  \/ CheckListing
  \/ Chdir
  \/ WriteManifest
  \/ InstallRuntime
  \/ RuntimeInstalled
  \/ InstallDev
  \/ DevInstalled
  \/ InstallRejected
  \/ Materialize
  \/ CpyRejected
  \/ Report
  \/ SetupComplete
  \/ Abort

\* The runs whose end is followed: those with an argument of at most three
\* characters and a template made of README.md and src/index.html.
FairInit ==
  /\ Init
  /\ Len(argv) <= Len(N_app)
  /\ DOMAIN template \subseteq {<<N_readme>>, <<N_src, N_indexHtml>>}

\* The run under the assumptions that the event loop runs every continuation
\* that is ready, that every spawned installer closes, and that every copy
\* the template copy has begun ends.
FairSpec ==
  /\ FairInit
  /\ [][Next]_vars
  /\ WF_vars(ProgramStep)
  /\ WF_vars(ChildClose)
  /\ WF_vars(CpyFile)
  /\ WF_vars(CpyResolve)

\* ------------------------------------------- install, exercised on its own

\* The package names used.
Packages == {"react", "react-dom", "parcel"}

\* The package lists install is called with: null, the empty list and every
\* list of up to MaxPkgs packages.
DependencyLists ==
  {NullList} \cup
  {List(items) : items \in UNION {[1..n -> Packages] : n \in 0..MaxPkgs}}

InstallInit ==
  /\ argv = <<>>
  /\ projectPath = <<>>
  /\ template = NoFiles
  /\ fsDirs = BaseDirs
  /\ fsWritable = BaseDirs
  /\ fsFiles = NoFiles
  /\ pc = "study"
  /\ InitRest
  /\ NoStudy

\* A caller calls install once, with any arguments.
StudyInstall ==
  /\ calls < 1
  /\ calls' = calls + 1
  /\ \E dependencies \in DependencyLists, devDependencies \in BOOLEAN :
       InstallCall(dependencies, devDependencies)
  /\ UNCHANGED <<argv, projectPath, pc, cwd, fsVars, fs0, trace, template, appPath,
                 root, originalDirectory, reason, cpyVars, out, exitStatus,
                 started, firstTree, input, returned>>

InstallNext == StudyInstall \/ ChildClose

InstallSpec == InstallInit /\ [][InstallNext]_vars

\* ---------------------------------- the template copy, exercised on its own

\* The destination the copy is exercised on.
StudyRoot == <<N_home, N_app>>

MaterializeInit ==
  /\ argv = N_app
  /\ projectPath = N_app
  /\ pc = "study"
  /\ template \in Templates
  /\ \E ts \in {"empty", "populated", "blocked"} :
       /\ fsDirs = FsWith(StudyRoot, "writable", ts).dirs
       /\ fsWritable = FsWith(StudyRoot, "writable", ts).writable
       /\ fsFiles = FsWith(StudyRoot, "writable", ts).files
  /\ cwd = StartDirectory
  /\ fs0 = FsNow
  /\ appPath = StudyRoot
  /\ root = StudyRoot
  /\ originalDirectory = StartDirectory
  /\ installs = <<>>
  /\ children = <<>>
  /\ reason = NoReason
  /\ pending = {}
  /\ cpyState = "idle"
  /\ out = <<>>
  /\ exitStatus = <<>>
  /\ started = <<>>
  /\ trace = <<>>
  /\ calls = 0
  /\ firstTree = FsNow
  /\ input = <<>>
  /\ returned = NoReason

\* A caller runs the copy, and again once it has completed, with the same
\* template, destination and rename callback.
StudyMaterialize ==
  /\ calls < MaxCalls
  /\ cpyState \in {"idle", "resolved"}
  /\ calls' = calls + 1
  /\ firstTree' = IF calls = 1 THEN FsNow ELSE firstTree
  /\ CpyCall
  /\ UNCHANGED <<argv, projectPath, pc, cwd, fsVars, fs0, trace, template, appPath,
                 root, originalDirectory, installVars, reason, out, exitStatus,
                 started, input, returned>>

MaterializeNext == StudyMaterialize \/ CpyFile \/ CpyResolve

MaterializeSpec == MaterializeInit /\ [][MaterializeNext]_vars

\* --------------------------------- validateNpmName, exercised on its own

\* The characters the names are made of: a letter, a capital, a period and a
\* space.
NameChars == {"a", "A", ".", " "}

\* Every name of up to MaxNameLen characters.
Names == UNION {[1..n -> NameChars] : n \in 0..MaxNameLen}

ValidateInit ==
  /\ argv = <<>>
  /\ projectPath = <<>>
  /\ template = NoFiles
  /\ fsDirs = BaseDirs
  /\ fsWritable = BaseDirs
  /\ fsFiles = NoFiles
  /\ pc = "study"
  /\ InitRest
  /\ input \in Names
  /\ returned = NoReason

\* A caller calls validateNpmName on the name.
StudyValidate ==
  /\ calls < 1
  /\ calls' = calls + 1
  /\ returned' = ValidateNpmName(input)
  /\ UNCHANGED <<argv, projectPath, pc, cwd, fsVars, fs0, trace, template, appPath,
                 root, originalDirectory, installVars, reason, cpyVars, out,
                 exitStatus, started, firstTree, input>>

ValidateNext == StudyValidate

ValidateSpec == ValidateInit /\ [][ValidateNext]_vars

\* ------------------------------------- isWriteable, exercised on its own

\* The paths isWriteable is exercised on: the root, the start directory and
\* paths in and next to it.
StudyDirectories ==
  { <<>>, StartDirectory, <<N_home, N_app>>, <<N_home, N_app, N_src>>,
    <<N_home, <<"d">>>>, <<N_home, <<"d">>, N_app>>, <<<<"d">>>>,
    <<<<"d">>, N_app>> }

IsWriteableInit ==
  /\ argv = <<>>
  /\ projectPath = <<>>
  /\ template = NoFiles
  /\ \E a \in Args, ps \in ParentStates, ts \in TargetStates :
       LET target == Resolve(StartDirectory, Trim(a)) IN
       /\ Plausible(target, ps, ts)
       /\ fsDirs = FsWith(target, ps, ts).dirs
       /\ fsWritable = FsWith(target, ps, ts).writable
       /\ fsFiles = FsWith(target, ps, ts).files
  /\ pc = "study"
  /\ InitRest
  /\ input \in StudyDirectories
  /\ returned = NoReason

\* A caller calls isWriteable on the path and awaits the outcome.
StudyIsWriteable ==
  /\ calls < 1
  /\ calls' = calls + 1
  /\ returned' = IsWriteable(input)
  /\ UNCHANGED <<argv, projectPath, pc, cwd, fsVars, fs0, trace, template, appPath,
                 root, originalDirectory, installVars, reason, cpyVars, out,
                 exitStatus, started, firstTree, input>>

IsWriteableNext == StudyIsWriteable

IsWriteableSpec == IsWriteableInit /\ [][IsWriteableNext]_vars

\* ================================================================ claims

Range(seq) == {seq[i] : i \in DOMAIN seq}

\* The stages of createApp, in the order the claims give them.
StageOrder ==
  <<"isWriteable", "mkdir", "chdir", "manifest", "installRuntime",
    "installDev", "cpy", "report">>

IsPrefix(a, b) == Len(a) <= Len(b) /\ a = SubSeq(b, 1, Len(a))

\* The child process i has closed with exit code 0.
ClosedZero(i) ==
  i \in DOMAIN children /\ ~children[i].alive /\ children[i].ev = [code |-> 0]

\* The child process i has closed with anything but exit code 0.
ClosedNonZero(i) ==
  /\ i \in DOMAIN children
  /\ ~children[i].alive
  /\ children[i].ev \in CloseEvents \ {[code |-> 0]}

ManifestPath == Join(root, N_packageJson)

\* The target the argument names, worked out from the argument alone.
Target == Resolve(StartDirectory, Trim(argv))

\* C1: the stages of createApp start in the fixed order isWriteable, mkdir,
\* chdir, manifest, runtime install, development install, template copy,
\* report, each only after the one before it has succeeded: the directory
\* exists when the working directory is changed, the manifest is on disk
\* when an installer is spawned, the runtime installer has closed with 0 when
\* the development installer is spawned, and both have when the copy starts.
C1_StagesInOrder ==
  /\ IsPrefix(started, StageOrder)
  /\ "mkdir" \in Range(started) => AccessW(fs0.dirs, fs0.writable, Dirname(root))
  /\ "chdir" \in Range(started) => root \in fsDirs /\ cwd = root
  /\ children # <<>> =>
       /\ "manifest" \in Range(started)
       /\ ManifestPath \in DOMAIN fsFiles
       /\ "cpy" \notin Range(started) =>
            fsFiles[ManifestPath] = ManifestText(PackageJson(Basename(Target)))
  /\ Len(children) >= 2 => ClosedZero(1)
  /\ "cpy" \in Range(started) =>
       Len(children) = 2 /\ ClosedZero(1) /\ ClosedZero(2)
  /\ "report" \in Range(started) => cpyState = "resolved" /\ pending = {}

\* C1's case: a run went through all eight stages and ended.
C1_Witness == pc = "exited" /\ started = StageOrder

\* What the run prints when isWriteable returns false.
NotWritableMessage ==
  "The application path is not writable, please check folder permissions and try again."

\* What the failure of the run leaves in started: the stages up to the one
\* that failed.
StagesUpToFailure ==
  IF reason = [error |-> "mkdir"] THEN SubSeq(StageOrder, 1, 2)
  ELSE IF reason = [error |-> "writeFileSync"] THEN SubSeq(StageOrder, 1, 4)
  ELSE IF "command" \in DOMAIN reason
       THEN IF ClosedNonZero(1) THEN SubSeq(StageOrder, 1, 5)
            ELSE SubSeq(StageOrder, 1, 6)
  ELSE IF reason = [error |-> "cpy"] THEN SubSeq(StageOrder, 1, 7)
  ELSE IF NotWritableMessage \in Range(out)
       THEN SubSeq(StageOrder, 1, 1)
  ELSE <<>>

\* The run has failed: it is in the catch handler, or has exited with 1.
Failed == pc = "catch" \/ exitStatus = <<1>>

\* C2: once a stage has failed no later stage is started: the stages started
\* are those up to the failed one; after the runtime installer closed with a
\* non-zero code no second child exists and the template copy has not begun,
\* after the development installer did the copy has not begun, and after the
\* copy failed nothing is reported.
C2_FailFast ==
  /\ Failed => started = StagesUpToFailure
  /\ ClosedNonZero(1) =>
       /\ Len(children) = 1
       /\ "installDev" \notin Range(started)
       /\ "cpy" \notin Range(started)
       /\ cpyState = "idle"
  /\ ClosedNonZero(2) => "cpy" \notin Range(started) /\ cpyState = "idle"
  /\ cpyState = "rejected" =>
       "report" \notin Range(started) /\ "Setup Complete" \notin Range(out)
  /\ Failed => "Setup Complete" \notin Range(out) /\ "Success!" \notin Range(out)

\* C2's case: the runtime installer failed and the run has exited.
C2_Witness ==
  /\ pc = "exited"
  /\ ClosedNonZero(1)
  /\ exitStatus = <<1>>

\* C3: at most one installer child is alive at any time, the development
\* installer is spawned only once the runtime installer's close event has
\* settled its promise, and a run spawns at most one child for each of the
\* two dependency sets, the runtime set first.
C3_SequentialInstalls ==
  /\ Cardinality({i \in DOMAIN children : children[i].alive}) <= 1
  /\ Len(children) <= 2
  /\ Len(installs) = Len(children)
  /\ Len(children) >= 1 =>
       /\ installs[1].dependencies = List(Dependencies)
       /\ ~installs[1].devDependencies
  /\ Len(children) = 2 =>
       /\ ~children[1].alive
       /\ children[1].ev # NoEvent
       /\ installs[1].promise = "resolved"
       /\ installs[2].dependencies = List(DevDependencies)
       /\ installs[2].devDependencies

\* C3's case: the development installer is alive, the runtime installer closed.
C3_Witness ==
  /\ Len(children) = 2
  /\ children[2].alive
  /\ ~children[1].alive

\* The call k of install was given no packages: null or an empty list.
NothingToInstall(k) ==
  installs[k].dependencies.isNull \/ installs[k].dependencies.items = <<>>

\* C4: a call of install with null or an empty package list resolves at once
\* and spawns no process, whatever the development flag.
C4_NothingSpawnedWhenEmpty ==
  \A k \in DOMAIN installs :
    NothingToInstall(k) =>
      /\ installs[k].promise = "resolved"
      /\ installs[k].child \notin DOMAIN children

\* The packages of a list, each after a space.
RECURSIVE SpaceBefore(_)
SpaceBefore(items) ==
  IF items = <<>> THEN "" ELSE " " \o Head(items) \o SpaceBefore(Tail(items))

\* The command line the claim gives for a package list and a flag.
ExpectedCommand(items, dev) ==
  "npm install --save-exact "
    \o (IF dev THEN "--save-dev" ELSE "--save")
    \o SpaceBefore(items)

\* C5: for a non-empty package list and either flag, the child is given
\* install, --save-exact, --save-dev or --save by the flag, then the packages
\* in order; the call is pending until the child closes, succeeds exactly
\* when it closes with code 0, and for every other close, a null code
\* included, fails with a command field that is 'npm ' and those arguments
\* joined by spaces.
C5_InstallOutcome ==
  \A k \in DOMAIN installs :
    ~NothingToInstall(k) =>
      LET call == installs[k]
          child == children[call.child]
          flag == IF call.devDependencies THEN "--save-dev" ELSE "--save"
      IN /\ child.args = <<"install", "--save-exact", flag>> \o call.dependencies.items
         /\ call.promise = "pending" <=> child.alive
         /\ call.promise = "resolved" <=> (~child.alive /\ child.ev = [code |-> 0])
         /\ call.promise = "rejected" <=>
              (~child.alive /\ child.ev \in CloseEvents \ {[code |-> 0]})
         /\ call.promise = "rejected" =>
              call.rejection =
                [command |-> ExpectedCommand(call.dependencies.items,
                                             call.devDependencies)]
         /\ call.promise # "rejected" => call.rejection = NoReason

\* C5's case: a call with two packages and the development flag has failed
\* because its child was killed by a signal.
C5_Witness ==
  \E k \in DOMAIN installs :
    /\ installs[k].dependencies = List(<<"react", "parcel">>)
    /\ installs[k].devDependencies
    /\ children[installs[k].child].ev = [signal |-> "SIGKILL"]
    /\ installs[k].promise = "rejected"
    /\ installs[k].rejection =
         [command |-> "npm install --save-exact --save-dev react parcel"]

\* The argument is not blank and the rule set rejects the target's base name.
NameInvalid ==
  /\ Trim(argv) # <<>>
  /\ ~ValidateProjectName(Basename(Target)).validForNewPackages

\* The argument is not blank and the run found the target's parent missing
\* or not writable.
ParentUnwritable ==
  /\ Trim(argv) # <<>>
  /\ ~AccessW(fs0.dirs, fs0.writable, Dirname(Target))

\* Every stage of the run has succeeded.
AllStagesSucceeded ==
  /\ Trim(argv) # <<>>
  /\ ~NameInvalid
  /\ ~ParentUnwritable
  /\ started = StageOrder
  /\ Target \in fsDirs
  /\ ManifestPath \in DOMAIN fsFiles
  /\ Len(children) = 2 /\ ClosedZero(1) /\ ClosedZero(2)
  /\ cpyState = "resolved" /\ pending = {}
  /\ reason = NoReason

\* One of the failures the claim lists has happened.
SomeStageFailed ==
  \/ NameInvalid
  \/ ParentUnwritable
  \/ ClosedNonZero(1)
  \/ ClosedNonZero(2)
  \/ reason # NoReason
  \/ cpyState = "rejected"

\* C6: the process ends with status 0 only if every stage succeeded, with
\* status 1 whenever the name is invalid, the parent unwritable, an installer
\* closed with a non-zero code or a stage threw or rejected, and 'Setup
\* Complete' is printed only when every stage succeeded.
C6_ExitStatus ==
  /\ exitStatus \in {<<>>, <<0>>, <<1>>}
  /\ pc = "exited" <=> exitStatus # <<>>
  /\ exitStatus = <<0>> => AllStagesSucceeded
  /\ (pc = "exited" /\ SomeStageFailed) => exitStatus = <<1>>
  /\ "Setup Complete" \in Range(out) => exitStatus = <<0>> /\ AllStagesSucceeded

\* C6's case: the template copy rejected and the process has ended with 1.
C6_Witness ==
  /\ pc = "exited"
  /\ reason = [error |-> "cpy"]
  /\ exitStatus = <<1>>
  /\ ClosedZero(1) /\ ClosedZero(2)

\* C7: the directory checked is the parent of the resolved target: the run
\* goes past the check exactly when that directory exists and is writable,
\* and otherwise exits with status 1 with nothing created: the file system is
\* as the run found it, the working directory unchanged, no installer
\* spawned, no template file copied.
C7_UnwritableParentAborts ==
  /\ started # <<>> => root = Target
  /\ (started # <<>> /\ ParentUnwritable) =>
       /\ pc = "exited"
       /\ exitStatus = <<1>>
       /\ NotWritableMessage \in Range(out)
       /\ started = <<"isWriteable">>
       /\ FsNow = fs0
       /\ cwd = StartDirectory
       /\ children = <<>> /\ installs = <<>>
       /\ cpyState = "idle" /\ pending = {}
  /\ (started # <<>> /\ ~ParentUnwritable) =>
       NotWritableMessage \notin Range(out) /\ pc \notin {"createApp", "validate", "run"}
       /\ (pc = "exited" => Len(started) > 1)

\* C7's case: the target exists and is writable, its parent is not, and the
\* run has exited at the check.
C7_Witness ==
  /\ ParentUnwritable
  /\ Target \in fs0.writable
  /\ pc = "exited"
  /\ started = <<"isWriteable">>

\* What the run prints first when the name is rejected.
NamingMessage == "Could not create a project because of npm naming restrictions:"

\* C8: when the base name of the resolved path fails validation the run
\* exits with status 1 and createApp is never called: no stage of it has
\* started, the file system is as the run found it, the working directory
\* unchanged, nothing spawned, nothing copied.
C8_InvalidNameAborts ==
  (NameInvalid /\ pc \notin {"run", "validate"}) =>
    /\ pc = "exited"
    /\ exitStatus = <<1>>
    /\ NamingMessage \in Range(out)
    /\ started = <<>>
    /\ appPath = <<>> /\ root = <<>>
    /\ FsNow = fs0
    /\ cwd = StartDirectory
    /\ children = <<>> /\ installs = <<>>
    /\ cpyState = "idle" /\ pending = {}

\* C8's case: a name in capitals was rejected though its parent is writable
\* and the target does not exist.
C8_Witness ==
  /\ argv = <<"A", "P", "P">>
  /\ pc = "exited"
  /\ ~ParentUnwritable
  /\ Target \notin fsDirs
  /\ NamingMessage \in Range(out)

\* The rename table as the claim gives it.
TableName(name) ==
  IF name = N_gitignore THEN N_dotGitignore
  ELSE IF name = N_eslintrc THEN N_dotEslintrc
  ELSE IF name = N_readmeTemplate THEN N_readme
  ELSE name

\* Where the claim puts the copy of template file f: the same directory
\* below the destination, the base name looked up in the table.
TablePath(f) == root \o SubSeq(f, 1, Len(f) - 1) \o <<TableName(f[Len(f)])>>

\* The file names the template trees and the table use.
FileNames ==
  { N_gitignore, N_eslintrc, N_readmeTemplate, N_readme, N_dotGitignore,
    N_dotEslintrc, N_gitignoreTxt, N_packageJson, N_indexHtml }

\* The files of the destination that are copies of template files.
Copies == {x \in DOMAIN fsFiles : "template" \in DOMAIN fsFiles[x]}

\* The template files the copy takes.
Matched == {f \in DOMAIN template : Matches(f)}

\* C9: every copy of a template file lies in the file's own relative
\* directory below the destination under the name the table gives its base
\* name: gitignore as .gitignore, eslintrc as .eslintrc, README-template.md
\* as README.md, every other name, gitignore.txt and .gitignore among them,
\* unchanged; and every file whose copy has ended without a failure is there.
C9_RenameTable ==
  /\ \A name \in FileNames : Rename(name) = TableName(name)
  /\ \A x \in Copies :
       /\ fsFiles[x].template \in Matched
       /\ x = TablePath(fsFiles[x].template)
  /\ cpyState \in {"running", "resolved"} =>
       \A f \in Matched \ pending : TablePath(f) \in Copies

\* C9's case: src/eslintrc has been copied to src/.eslintrc and
\* gitignore.txt to gitignore.txt below the target.
C9_Witness ==
  /\ pc = "exited"
  /\ exitStatus = <<0>>
  /\ Join(Join(root, N_src), N_dotEslintrc) \in Copies
  /\ fsFiles[Join(Join(root, N_src), N_dotEslintrc)] = [template |-> <<N_src, N_eslintrc>>]
  /\ Join(root, N_gitignoreTxt) \in Copies
  /\ fsFiles[Join(root, N_gitignoreTxt)] = [template |-> <<N_gitignoreTxt>>]

\* The copy has been run at least twice and its last run has completed.
RunTwice == calls >= 2 /\ cpyState = "resolved"

\* C10 as claimed: after the copy has been run twice in succession the
\* destination is as the first run left it, whatever the template tree.
C10_IdempotentAlways == RunTwice => FsNow = firstTree

\* No two template files the copy takes are written to the same path.
NoCollision ==
  \A f, g \in Matched : f # g => DestPath(root, f) # DestPath(root, g)

\* C10, amended: when no two template files are written to the same
\* destination path, a completed run leaves at each file's destination that
\* file's content, whatever was there before, and one copy for each file; and
\* a second run in succession leaves the destination as the first run left it.
C10_Idempotent ==
  NoCollision =>
    /\ (calls >= 1 /\ cpyState = "resolved") =>
         /\ \A f \in Matched :
              /\ DestPath(root, f) \in DOMAIN fsFiles
              /\ fsFiles[DestPath(root, f)] = template[f]
         /\ Cardinality(Copies) = Cardinality(Matched)
    /\ RunTwice => FsNow = firstTree

\* C10's case: the copy has been run twice over a destination that held a
\* README.md of its own, which is now the template's README-template.md.
C10_Witness ==
  /\ RunTwice
  /\ NoCollision
  /\ Join(root, N_readme) \in DOMAIN fs0.files
  /\ Join(root, N_readme) \in Copies
  /\ fsFiles[Join(root, N_readme)] = [template |-> <<N_readmeTemplate>>]

\* The manifest's path, worked out from the argument alone.
ManifestFile == Join(Target, N_packageJson)

\* The positions in the trace of the program's writes to path.
WritesTo(path) ==
  {i \in DOMAIN trace : /\ trace[i].op \in {"writeFileSync", "copyFile"}
                        /\ trace[i].arg = path}

\* The manifest stage has written its file.
ManifestStageDone == \E i \in DOMAIN trace : trace[i].op = "writeFileSync"

\* C11 as claimed: the program writes the manifest path at most once, that
\* write is the manifest stage's, and from then on the file holds what that
\* stage wrote, whatever the template tree holds.
C11_ManifestWrittenOnceAlways ==
  /\ Cardinality(WritesTo(ManifestFile)) <= 1
  /\ \A i \in WritesTo(ManifestFile) : trace[i].op = "writeFileSync"
  /\ ManifestStageDone =>
       /\ Cardinality(WritesTo(ManifestFile)) = 1
       /\ ManifestFile \in DOMAIN fsFiles
       /\ fsFiles[ManifestFile] = ManifestText(PackageJson(Basename(Target)))

\* The template tree has a package.json at its top.
TemplateHasManifest == <<N_packageJson>> \in DOMAIN template

\* C11, amended: when the template tree has no package.json at its top, the
\* program writes the manifest path exactly once, at the manifest stage, no
\* later stage writes it again, and the template copy leaves it as written.
C11_ManifestWrittenOnce ==
  ~TemplateHasManifest =>
    /\ Cardinality(WritesTo(ManifestFile)) <= 1
    /\ \A i \in WritesTo(ManifestFile) : trace[i].op = "writeFileSync"
    /\ ManifestStageDone =>
         /\ WritesTo(ManifestFile) # {}
         /\ ManifestFile \in DOMAIN fsFiles
         /\ fsFiles[ManifestFile] = ManifestText(PackageJson(Basename(Target)))

\* C11's case: the copy has completed with a package.json of the template
\* written under src, and the manifest is as the manifest stage wrote it.
C11_Witness ==
  /\ ~TemplateHasManifest
  /\ cpyState = "resolved"
  /\ WritesTo(Join(Target, N_src) \o <<N_packageJson>>) # {}
  /\ WritesTo(ManifestFile) # {}
  /\ fsFiles[ManifestFile] = ManifestText(PackageJson(Basename(Target)))

\* The manifest of a project called name, written out field by field.
ManifestOf(name) ==
  [json |-> [name |-> name,
             version |-> "1.0.0",
             private |-> TRUE,
             scripts |->
               [start |-> "parcel \"./public/index.html\" --open -p 3000",
                build |-> "parcel build \"./public/index.html\" --out-dir build"]],
   indent |-> 2,
   eol |-> TRUE]

\* The manifest stage has just succeeded: the next step is the runtime install.
JustWritten == pc = "installRuntime"

\* C12: right after the manifest stage the manifest file holds the name,
\* version 1.0.0, private true and the two fixed scripts, the name being the
\* project's, whatever file was at that path before; nothing of an earlier
\* file is kept, and no other file is touched by the write.
C12_ManifestOverwrites ==
  JustWritten =>
    /\ ManifestFile \in DOMAIN fsFiles
    /\ fsFiles[ManifestFile] = ManifestOf(Basename(Target))
    /\ DOMAIN fsFiles = DOMAIN fs0.files \cup {ManifestFile}
    /\ \A x \in DOMAIN fs0.files \ {ManifestFile} : fsFiles[x] = fs0.files[x]

\* C12's case: a package.json of other content was in the target before the
\* run, and the manifest stage has just replaced it.
C12_Witness ==
  /\ JustWritten
  /\ ManifestFile \in DOMAIN fs0.files
  /\ fs0.files[ManifestFile] # ManifestOf(Basename(Target))
  /\ fsFiles[ManifestFile] = ManifestOf(Basename(Target))

\* The positions in the trace of the calls of op.
CallsOf(op) == {i \in DOMAIN trace : trace[i].op = op}

\* C13: the working directory is changed at most once in a run, and once in
\* every run that reaches the manifest stage: to the resolved target, after
\* mkdir has made it and before any file is written. Until then it is the
\* directory the run began in, from then on the target, and it still is the
\* target when the process has ended, with status 0 or with status 1.
C13_WorkingDirectory ==
  /\ Cardinality(CallsOf("chdir")) <= 1
  /\ \A i \in CallsOf("chdir") :
       /\ trace[i].arg = Target
       /\ Target \in fsDirs
       /\ \E j \in CallsOf("mkdir") : j < i
       /\ \A j \in CallsOf("writeFileSync") \cup CallsOf("copyFile") : i < j
  /\ "manifest" \in Range(started) => CallsOf("chdir") # {}
  /\ cwd = (IF CallsOf("chdir") = {} THEN StartDirectory ELSE Target)

\* C13's case: a run that changed the working directory has ended with
\* status 0 and the working directory is the target, not where it began.
C13_Witness ==
  /\ exitStatus = <<0>>
  /\ CallsOf("chdir") # {}
  /\ originalDirectory = StartDirectory
  /\ cwd = Target
  /\ cwd # originalDirectory

\* C13's other case: a run that changed the working directory has ended with
\* status 1, and the working directory is still the target.
C13_WitnessFailed ==
  /\ exitStatus = <<1>>
  /\ CallsOf("chdir") # {}
  /\ cwd = Target
  /\ cwd # StartDirectory

\* seq holds the elements of part, in part's order, at positions from + 1 on.
HoldsAt(seq, from, part) ==
  /\ Len(seq) >= from + Len(part)
  /\ \A i \in DOMAIN part : seq[from + i] = part[i]

\* C14: validateNpmName returns valid: true, and nothing else, exactly when
\* the rule set accepts the name for new packages; otherwise valid: false
\* with a problem list that is not empty and holds every error the rule set
\* reported, in the order reported, then every warning, in the order
\* reported, and nothing more.
C14_ValidateNpmName ==
  calls = 1 =>
    LET errs == NameErrors(input)
        warns == NameWarnings(input)
        accepted == ValidateProjectName(input).validForNewPackages
    IN /\ returned.valid <=> accepted
       /\ returned.valid => DOMAIN returned = {"valid"}
       /\ ~returned.valid =>
            /\ returned.problems # <<>>
            /\ Len(returned.problems) = Len(errs) + Len(warns)
            /\ HoldsAt(returned.problems, 0, errs)
            /\ HoldsAt(returned.problems, Len(errs), warns)

\* C14's case: a name that breaks a rule and draws a warning was given, and
\* the error is listed before the warning.
C14_Witness ==
  /\ calls = 1
  /\ input = <<".", "A">>
  /\ returned = [valid |-> FALSE,
                 problems |-> <<"name cannot start with a period",
                                "name can no longer contain capital letters">>]

\* C15: isWriteable never throws: it returns true when the access check
\* succeeds and false for every failure of it, a directory that does not
\* exist and a directory without write permission among them; and it leaves
\* the file system as it was.
C15_IsWriteable ==
  calls = 1 =>
    /\ DOMAIN returned = {"value"}
    /\ returned.value \in BOOLEAN
    /\ returned.value <=>
         \/ input \in fsDirs \cap fsWritable
         \/ input \in DOMAIN fsFiles
    /\ (input \notin fsDirs /\ input \notin DOMAIN fsFiles) => ~returned.value
    /\ (input \in fsDirs /\ input \notin fsWritable) => ~returned.value
    /\ FsNow = fs0

\* C15's case: the directory exists and is not writable, and false came back.
C15_Witness ==
  /\ calls = 1
  /\ input \in fsDirs
  /\ input \notin fsWritable
  /\ returned = [value |-> FALSE]

\* The base name of the resolved absolute path of the argument.
ProjectName == Basename(Target)

\* The template copy has written over the manifest.
ManifestCopiedOver ==
  \E i \in CallsOf("copyFile") : trace[i].arg = ManifestFile

\* C16: the name validated, the name in the manifest and the base name of the
\* directory created are one string, the base name of the resolved absolute
\* path of the argument; and createApp works on no name but a validated one:
\* once it has started, that name has been validated and accepted.
C16_OneName ==
  /\ \A i \in CallsOf("validateNpmName") : trace[i].arg = ProjectName
  /\ \A i \in CallsOf("isWriteable") : trace[i].arg = Dirname(Target)
  /\ \A i \in CallsOf("mkdir") :
       /\ trace[i].arg = Target
       /\ Basename(trace[i].arg) = ProjectName
  /\ \A i \in CallsOf("writeFileSync") :
       /\ trace[i].arg = Dirname(Target) \o <<ProjectName, N_packageJson>>
       /\ ~ManifestCopiedOver => fsFiles[trace[i].arg].json.name = ProjectName
  /\ started # <<>> =>
       /\ CallsOf("validateNpmName") # {}
       /\ ValidateProjectName(ProjectName).validForNewPackages
       /\ appPath = Target
       /\ root = Target
       /\ Basename(root) = ProjectName

\* C16's case: the argument d/../app names the directory app beside d; app
\* was validated, created and written into the manifest.
C16_Witness ==
  /\ argv = <<"d", "/", ".", ".", "/">> \o N_app
  /\ pc = "installRuntime"
  /\ trace[1] = [op |-> "validateNpmName", arg |-> N_app]
  /\ CallsOf("mkdir") # {}
  /\ <<N_home, N_app>> \in fsDirs
  /\ fsFiles[<<N_home, N_app, N_packageJson>>].json.name = N_app

\* The run has failed in the runtime install, the development install or
\* the template copy.
FailedLate ==
  /\ Failed
  /\ "command" \in DOMAIN reason \/ reason = [error |-> "cpy"]

\* C17: a run that has failed in an install or in the template copy leaves,
\* up to and after its exit, all that the earlier stages made: the target
\* directory and the directories above it, the manifest file, every file the
\* copy wrote and the directory it is in; and all that was on the file
\* system before the run is still there. Nothing is deleted.
C17_NoRollback ==
  FailedLate =>
    /\ Prefixes(Target) \subseteq fsDirs
    /\ ManifestFile \in DOMAIN fsFiles
    /\ \A i \in CallsOf("copyFile") :
         /\ trace[i].arg \in DOMAIN fsFiles
         /\ Dirname(trace[i].arg) \in fsDirs
    /\ fs0.dirs \subseteq fsDirs
    /\ DOMAIN fs0.files \subseteq DOMAIN fsFiles
    /\ cwd = Target

\* C17's case: the copy failed on one file after it had written another, and
\* the run has exited with the manifest and the written file, neither there
\* before the run, in place.
C17_Witness ==
  /\ exitStatus = <<1>>
  /\ reason = [error |-> "cpy"]
  /\ Target \in fsDirs
  /\ ManifestFile \notin DOMAIN fs0.files
  /\ ManifestFile \in DOMAIN fsFiles
  /\ \E i \in CallsOf("copyFile") :
       /\ trace[i].arg \notin DOMAIN fs0.files
       /\ trace[i].arg \in DOMAIN fsFiles

\* C17's other cases: an installer failed, and the run has exited with the
\* directory it created and the manifest in place.
C17_WitnessInstall ==
  /\ exitStatus = <<1>>
  /\ "command" \in DOMAIN reason
  /\ Target \notin fs0.dirs
  /\ Target \in fsDirs
  /\ ManifestFile \in DOMAIN fsFiles

\* mkdir has succeeded.
DirectoryMade == CallsOf("mkdir") # {}

\* C18: what the target directory holds is no condition of the run. After
\* mkdir has succeeded the listing check lets the run pass to the change of
\* directory and the manifest stage, whether the directory is empty or held
\* entries before the run; the process never exits at the check, so a run
\* that made the directory and exits with 1 does so because a stage threw or
\* rejected, through the catch handler.
C18_ListingNeverEnds ==
  /\ pc = "readdir" => DirectoryMade /\ exitStatus = <<>>
  /\ (DirectoryMade /\ pc \notin {"readdir", "chdir"}) =>
       "chdir" \in Range(started)
  /\ (DirectoryMade /\ exitStatus = <<1>>) =>
       /\ reason # NoReason
       /\ "Aborting installation." \in Range(out)

\* C18's case: the run made the directory, which is empty, and has passed
\* the check and reached the manifest stage.
C18_Witness ==
  /\ pc = "manifest"
  /\ Target \notin fs0.dirs
  /\ Readdir(Target) = {}

\* C18's other case: the directory held entries before the run, and the run
\* has passed the check and reached the manifest stage.
C18_WitnessPopulated ==
  /\ pc = "manifest"
  /\ Target \in fs0.dirs
  /\ Readdir(Target) # {}

\* createApp is waiting for an install whose child has not closed.
WaitingForClose ==
  /\ pc \in {"awaitRuntime", "awaitDev"}
  /\ LastInstall.promise = "pending"

\* Install k's promise is settled in this step.
Settles(k) ==
  /\ installs[k].promise = "pending"
  /\ installs'[k].promise # "pending"

\* C19: when every spawned installer closes and every copy ends, the run
\* ends, and with one outcome: the exit status, once set, is 0 or 1 and does
\* not change. An install's promise is settled only in the step in which its
\* child closes, and once settled is not touched again. While createApp
\* waits for a child to close the program has no step of its own: no
\* timeout, no cancellation.
C19_Terminates ==
  /\ <>(pc = "exited")
  /\ [](pc = "exited" <=> exitStatus \in {<<0>>, <<1>>})
  /\ [](exitStatus \in {<<>>, <<0>>, <<1>>})
  /\ [][exitStatus # <<>> => exitStatus' = exitStatus]_vars
  /\ [][\A k \in DOMAIN installs :
         /\ installs[k].promise # "pending" => installs'[k] = installs[k]
         /\ Settles(k) =>
              /\ children[installs[k].child].alive
              /\ ~children'[installs[k].child].alive]_vars
  /\ [](WaitingForClose => ~ENABLED ProgramStep)

\* C19's case: both installers closed with 0, the copy completed, and the run
\* has ended with status 0.
C19_Witness ==
  /\ pc = "exited"
  /\ exitStatus = <<0>>
  /\ Len(installs) = 2
  /\ \A k \in DOMAIN installs : installs[k].promise = "resolved"
  /\ cpyState = "resolved"

\* C19's other case: the runtime installer closed on a signal, its promise
\* was rejected, and the run has ended with status 1.
C19_WitnessFailed ==
  /\ pc = "exited"
  /\ exitStatus = <<1>>
  /\ Len(installs) = 1
  /\ installs[1].promise = "rejected"
  /\ children[1].ev = [signal |-> "SIGKILL"]

\* The argument is missing, empty or all spaces.
Blank == \A i \in DOMAIN argv : argv[i] = " "

\* The argument from its first to its last character that is not a space.
Stripped ==
  LET solid == {i \in DOMAIN argv : argv[i] # " "}
      first == CHOOSE i \in solid : \A j \in solid : i <= j
      last == CHOOSE i \in solid : \A j \in solid : j <= i
  IN IF solid = {} THEN <<>> ELSE SubSeq(argv, first, last)

\* C20: when the argument is missing, empty or all spaces the run prints the
\* usage and exits with 1 before the name is validated and before createApp:
\* nothing is called, created or spawned. An argument that is not blank has
\* its surrounding spaces removed before its path is resolved: the name
\* validated and the path given to createApp are those of the stripped
\* argument.
C20_BlankArgument ==
  /\ (Blank /\ pc # "run") =>
       /\ pc = "exited"
       /\ exitStatus = <<1>>
       /\ out = <<"Please specify the project directory:">>
       /\ trace = <<>>
       /\ started = <<>>
       /\ appPath = <<>> /\ root = <<>>
       /\ FsNow = fs0
       /\ cwd = StartDirectory
       /\ children = <<>> /\ installs = <<>>
       /\ cpyState = "idle" /\ pending = {}
  /\ (~Blank /\ pc # "run") =>
       /\ projectPath = Stripped
       /\ pc # "validate" =>
            trace[1] = [op |-> "validateNpmName",
                        arg |-> Basename(Resolve(StartDirectory, Stripped))]
       /\ appPath # <<>> => appPath = Resolve(StartDirectory, Stripped)

\* C20's case: the argument was two spaces, and the run has exited with 1.
C20_Witness ==
  /\ argv = <<" ", " ">>
  /\ pc = "exited"
  /\ exitStatus = <<1>>
  /\ trace = <<>>

\* C20's other case: the argument had a space on either side, and createApp
\* was given the path of what is between them.
C20_WitnessTrimmed ==
  /\ argv = <<" ">> \o N_app \o <<" ">>
  /\ projectPath = N_app
  /\ appPath = <<N_home, N_app>>

====
